---------------------------- MODULE Spec2Model ----------------------------
(***************************************************************************)
(* A model of main.py: the tokeniser, the recursive-descent parser, the    *)
(* C code generator, the tree-walking interpreter and the driver run_py2c. *)
(* Text is modelled by TLA+ strings, one character being a string of       *)
(* length one; the parser is a machine with an explicit call stack whose   *)
(* cursor is the variable pos; the interpreter and the generator are       *)
(* recursive operators over the tree the parser builds.                    *)
(***************************************************************************)
EXTENDS Integers, Sequences, FiniteSets, TLC

VARIABLES source, i, toks, errs, pc, exc,
          pos, stack, ret, statements,
          c_code, gcc,
          env, out, ip, ierr

vars == <<source, i, toks, errs, pc, exc, pos, stack, ret, statements,
          c_code, gcc, env, out, ip, ierr>>

(***************************************************************************)
(* Characters and strings                                                  *)
(***************************************************************************)
Ch(s, k) == SubSeq(s, k, k)

Digits == {"0", "1", "2", "3", "4", "5", "6", "7", "8", "9"}

Letters == {"a", "b", "c", "d", "e", "f", "g", "h", "i", "j", "k", "l", "m",
            "n", "o", "p", "q", "r", "s", "t", "u", "v", "w", "x", "y", "z",
            "A", "B", "C", "D", "E", "F", "G", "H", "I", "J", "K", "L", "M",
            "N", "O", "P", "Q", "R", "S", "T", "U", "V", "W", "X", "Y", "Z"}

IdentStart == Letters \cup {"_"}

IdentChars == Letters \cup Digits \cup {"_"}

Whitespace == {" ", "\t", "\n", "\r", "\f"}

Signs == {"+", "-"}

Quotes == {"\"", "'"}

\* The first index >= k of s whose character is not in S (Len(s) + 1 if none):
\* the end of a greedy run S* that starts at k.
RECURSIVE Span(_, _, _)
Span(S, s, k) ==
    IF k <= Len(s) /\ Ch(s, k) \in S THEN Span(S, s, k + 1) ELSE k

\* The first index >= k of s that holds character c with no line break before
\* it, or 0: the non-greedy .*? followed by c.
RECURSIVE Find(_, _, _)
Find(c, s, k) ==
    IF k > Len(s) THEN 0
    ELSE IF Ch(s, k) = c THEN k
    ELSE IF Ch(s, k) = "\n" THEN 0
    ELSE Find(c, s, k + 1)

(***************************************************************************)
(* Lexer definitions                                                       *)
(***************************************************************************)
KEYWORDS ==
    {"False", "None", "True", "and", "as", "assert", "async", "await",
     "break", "class", "continue", "def", "del", "elif", "else", "except",
     "finally", "for", "from", "global", "if", "import", "in", "is",
     "lambda", "nonlocal", "not", "or", "pass", "raise", "return", "try",
     "while", "with", "yield"}

\* The list literal handed to sorted().
OperatorList ==
    <<"**=", "//=", "==", "!=", "<=", ">=", "**", "//",
      "+=", "-=", "*=", "/=", "%=", "=", "<", ">", "+", "-", "*", "/", "%",
      "and", "or", "not", "is", "in">>

\* The comparison of InsertByLen the other way round: shortest first.
RECURSIVE InsertShortestFirst(_, _)
InsertShortestFirst(x, sorted) ==
    IF sorted = <<>> THEN <<x>>
    ELSE IF Len(Head(sorted)) <= Len(x)
         THEN <<Head(sorted)>> \o InsertShortestFirst(x, Tail(sorted))
         ELSE <<x>> \o sorted

\* x placed into a list that is sorted by descending length, behind every
\* element at least as long: one step of a stable sort on key -len(x).
RECURSIVE InsertByLen(_, _)
InsertByLen(x, sorted) ==
    IF sorted = <<>> THEN <<x>>
    ELSE IF Len(Head(sorted)) >= Len(x)
         THEN <<Head(sorted)>> \o InsertByLen(x, Tail(sorted))
         ELSE <<x>> \o sorted

\* sorted(seq, key = lambda x: -len(x)); Python's sort is stable.
RECURSIVE SortedByLen(_)
SortedByLen(seq) ==
    IF seq = <<>> THEN <<>>
    ELSE InsertByLen(seq[Len(seq)], SortedByLen(SubSeq(seq, 1, Len(seq) - 1)))

OPERATORS == SortedByLen(OperatorList)

OperatorSet == {OPERATORS[n] : n \in 1..Len(OPERATORS)}

(***************************************************************************)
(* Tokenizer: each Match operator gives the index just behind the match of *)
(* its pattern at index k of s, or 0 when the pattern does not match there *)
(***************************************************************************)
\* (".*?"|'.*?')
MatchSTRING(s, k) ==
    IF Ch(s, k) \in Quotes
    THEN LET j == Find(Ch(s, k), s, k + 1) IN IF j = 0 THEN 0 ELSE j + 1
    ELSE 0

\* [+-]?(\d+\.\d*|\.\d+)
MatchFLOAT(s, k) ==
    LET b == IF Ch(s, k) \in Signs THEN k + 1 ELSE k
        d == Span(Digits, s, b)
    IN  IF d > b /\ d <= Len(s) /\ Ch(s, d) = "." THEN Span(Digits, s, d + 1)
        ELSE IF b <= Len(s) /\ Ch(s, b) = "." /\ Span(Digits, s, b + 1) > b + 1
             THEN Span(Digits, s, b + 1)
        ELSE 0

\* [+-]?\d+
MatchINTEGER(s, k) ==
    LET b == IF Ch(s, k) \in Signs THEN k + 1 ELSE k
        d == Span(Digits, s, b)
    IN  IF d > b THEN d ELSE 0

\* [A-Za-z_][A-Za-z0-9_]*
MatchIDENT(s, k) ==
    IF Ch(s, k) \in IdentStart THEN Span(IdentChars, s, k + 1) ELSE 0

\* '|'.join(map(re.escape, ops)): the first alternative, in list order, that
\* is spelled at index k.
RECURSIVE MatchAlternation(_, _, _)
MatchAlternation(ops, s, k) ==
    IF ops = <<>> THEN 0
    ELSE IF k + Len(Head(ops)) - 1 <= Len(s)
              /\ SubSeq(s, k, k + Len(Head(ops)) - 1) = Head(ops)
         THEN k + Len(Head(ops))
         ELSE MatchAlternation(Tail(ops), s, k)

MatchOP(s, k) == MatchAlternation(OPERATORS, s, k)

\* \s+
MatchSKIP(s, k) ==
    LET d == Span(Whitespace, s, k) IN IF d > k THEN d ELSE 0

\* . (any character but a line break)
MatchMISMATCH(s, k) == IF Ch(s, k) # "\n" THEN k + 1 ELSE 0

\* The combined regex at index k: the first named group, in token_spec order,
\* that matches.  kind "" when nothing matches at k.
MatchAt(s, k) ==
    IF MatchSTRING(s, k) # 0 THEN [kind |-> "STRING", end |-> MatchSTRING(s, k)]
    ELSE IF MatchFLOAT(s, k) # 0 THEN [kind |-> "FLOAT", end |-> MatchFLOAT(s, k)]
    ELSE IF MatchINTEGER(s, k) # 0 THEN [kind |-> "INTEGER", end |-> MatchINTEGER(s, k)]
    ELSE IF MatchIDENT(s, k) # 0 THEN [kind |-> "IDENT", end |-> MatchIDENT(s, k)]
    ELSE IF MatchOP(s, k) # 0 THEN [kind |-> "OP", end |-> MatchOP(s, k)]
    ELSE IF MatchSKIP(s, k) # 0 THEN [kind |-> "SKIP", end |-> MatchSKIP(s, k)]
    ELSE IF MatchMISMATCH(s, k) # 0 THEN [kind |-> "MISMATCH", end |-> MatchMISMATCH(s, k)]
    ELSE [kind |-> "", end |-> k + 1]

\* Identifiers are reclassified as KEYWORD or OP.
Reclassify(kind, val) ==
    IF kind = "IDENT"
    THEN IF val \in KEYWORDS THEN "KEYWORD"
         ELSE IF val \in OperatorSet THEN "OP"
         ELSE "IDENT"
    ELSE kind

\* re.sub(r'#.*', '', line): every # and what follows it on its line go.
RECURSIVE StripComments(_)
StripComments(line) ==
    IF line = "" THEN ""
    ELSE IF Ch(line, 1) = "#"
         THEN LET e == Find("\n", line, 1)
              IN  IF e = 0 THEN ""
                  ELSE StripComments(SubSeq(line, e, Len(line)))
    ELSE Ch(line, 1) \o StripComments(SubSeq(line, 2, Len(line)))

\* The loop over re.finditer from index k on.
RECURSIVE Scan(_, _)
Scan(s, k) ==
    IF k > Len(s) THEN <<>>
    ELSE LET m == MatchAt(s, k)
             val == SubSeq(s, k, m.end - 1)
         IN  IF m.kind \in {"SKIP", ""} THEN Scan(s, m.end)
             ELSE <<[val |-> val, kind |-> Reclassify(m.kind, val)]>>
                  \o Scan(s, m.end)

tokenise_python_code(line) == Scan(StripComments(line), 1)

(***************************************************************************)
(* AST nodes                                                               *)
(***************************************************************************)
DigitValue(c) == CHOOSE d \in 0..9 : Ch("0123456789", d + 1) = c

RECURSIVE DecimalValue(_)
DecimalValue(ds) ==
    IF ds = "" THEN 0
    ELSE 10 * DecimalValue(SubSeq(ds, 1, Len(ds) - 1)) + DigitValue(Ch(ds, Len(ds)))

\* int(v) for v spelled [+-]?\d+
int(v) ==
    IF Ch(v, 1) = "-" THEN 0 - DecimalValue(SubSeq(v, 2, Len(v)))
    ELSE IF Ch(v, 1) = "+" THEN DecimalValue(SubSeq(v, 2, Len(v)))
    ELSE DecimalValue(v)

Number(v) == [node |-> "Number", value |-> int(v)]

String(v) == [node |-> "String", value |-> SubSeq(v, 2, Len(v) - 1)]

Var(n) == [node |-> "Var", name |-> n]

BinOp(l, o, r) == [node |-> "BinOp", left |-> l, op |-> o, right |-> r]

Assign(n, e) == [node |-> "Assign", name |-> n, expr |-> e]

PrintNode(e) == [node |-> "Print", expr |-> e]

If(c, b) == [node |-> "If", cond |-> c, body |-> b]

(***************************************************************************)
(* Recursive descent parser.  toks and pos are the fields of the Parser    *)
(* object; stack holds one frame per active call of parse, statement,      *)
(* expr, term or factor with the place the call has reached (at) and its   *)
(* local variables; ret is the value the last call returned.               *)
(***************************************************************************)
NoToken == [val |-> "", kind |-> "NoneType"]

\* The token at cursor p: (None, None) at the end of the stream.  No token
\* of the tokeniser has an empty val, so NoToken.val equals no token's text.
TokenAt(p) == IF p < Len(toks) THEN toks[p + 1] ELSE NoToken

peek == TokenAt(pos)

\* How an f-string spells a token's value.
Spelled(t) == IF t = NoToken THEN "None" ELSE t.val

Top == stack[Len(stack)]

Below == SubSeq(stack, 1, Len(stack) - 1)

InCall(fn, ats) ==
    /\ pc = "parse"
    /\ stack # <<>>
    /\ Top.fn = fn
    /\ Top.at \in ats

NoNode == [node |-> "None"]

\* An exception leaves run_py2c: nothing catches it there, the run ends and
\* what the parser had built is gone with it.
Raise(msg) ==
    /\ exc' = msg
    /\ pc' = "aborted"
    /\ stack' = <<>>
    /\ ret' = NoNode
    /\ statements' = <<>>

\* return node, to the caller's frame.
Return(node) ==
    /\ stack' = Below
    /\ ret' = node
    /\ UNCHANGED <<exc, pc, statements>>

\* The caller moves on to place at and calls fn.
Call(frame, fn) ==
    /\ stack' = Below \o <<frame, [fn |-> fn, at |-> "start", entry |-> pos']>>
    /\ UNCHANGED <<exc, pc, ret, statements>>

Unparsed == <<source, i, toks, errs, c_code, gcc, env, out, ip, ierr>>

\* An expect that lets every token pass.
expect_anything(val, p) == ""

\* expect(val) at cursor p: the message of the SyntaxError, "" when the token
\* matches.
expect(val, p) ==
    IF TokenAt(p).val # val
    THEN "Expected " \o val \o ", got " \o Spelled(TokenAt(p))
    ELSE ""

\* while(self.pos < len(self.toks)): ... self.statement()
ParseCall ==
    /\ InCall("parse", {"loop"})
    /\ pos < Len(toks)
    /\ pos' = pos
    /\ Call([fn |-> "parse", at |-> "append"], "statement")
    /\ UNCHANGED Unparsed

\* statements.append(<what statement() returned>)
ParseAppend ==
    /\ InCall("parse", {"append"})
    /\ statements' = Append(statements, ret)
    /\ stack' = Below \o <<[fn |-> "parse", at |-> "loop"]>>
    /\ UNCHANGED <<pos, ret, exc, pc>>
    /\ UNCHANGED Unparsed

\* The loop ends and parse returns the statements to run_py2c.
ParseReturn ==
    /\ InCall("parse", {"loop"})
    /\ ~(pos < Len(toks))
    /\ stack' = <<>>
    /\ pc' = "gen"
    /\ UNCHANGED <<pos, ret, exc, statements>>
    /\ UNCHANGED Unparsed

\* statement(): the print branch up to the call of expr.
StatementPrint ==
    /\ InCall("statement", {"start"})
    /\ peek.val = "print"
    /\ IF expect("(", pos + 1) = ""
       THEN /\ pos' = pos + 2
            /\ Call([Top EXCEPT !.at = "print"], "expr")
       ELSE /\ pos' = pos + 1
            /\ Raise(expect("(", pos + 1))
    /\ UNCHANGED Unparsed

\* statement(): the assignment branch up to the call of expr.
StatementAssign ==
    /\ InCall("statement", {"start"})
    /\ peek.val # "print"
    /\ peek.kind = "IDENT"
    /\ IF expect("=", pos + 1) = ""
       THEN /\ pos' = pos + 2
            /\ Call([fn |-> "statement", at |-> "assign", entry |-> Top.entry,
                     name |-> peek.val], "expr")
       ELSE /\ pos' = pos + 1
            /\ Raise(expect("=", pos + 1))
    /\ UNCHANGED Unparsed

\* statement(): the if branch up to the call of expr.
StatementIf ==
    /\ InCall("statement", {"start"})
    /\ peek.val # "print"
    /\ peek.kind # "IDENT"
    /\ peek.val = "if"
    /\ pos' = pos + 1
    /\ Call([Top EXCEPT !.at = "if_cond"], "expr")
    /\ UNCHANGED Unparsed

\* statement(): no branch applies.
StatementUnexpected ==
    /\ InCall("statement", {"start"})
    /\ peek.val # "print"
    /\ peek.kind # "IDENT"
    /\ peek.val # "if"
    /\ pos' = pos
    /\ Raise("Unexpected " \o Spelled(peek))
    /\ UNCHANGED Unparsed

\* e = self.expr() has returned: self.expect(')'); return Print(e)
StatementPrintClose ==
    /\ InCall("statement", {"print"})
    /\ IF expect(")", pos) = ""
       THEN /\ pos' = pos + 1
            /\ Return(PrintNode(ret))
       ELSE /\ pos' = pos
            /\ Raise(expect(")", pos))
    /\ UNCHANGED Unparsed

\* e = self.expr() has returned: return Assign(name, e)
StatementAssignReturn ==
    /\ InCall("statement", {"assign"})
    /\ pos' = pos
    /\ Return(Assign(Top.name, ret))
    /\ UNCHANGED Unparsed

\* cond = self.expr() has returned: self.expect(':'); body = self.statement()
StatementIfBody ==
    /\ InCall("statement", {"if_cond"})
    /\ IF expect(":", pos) = ""
       THEN /\ pos' = pos + 1
            /\ Call([fn |-> "statement", at |-> "if_body", entry |-> Top.entry,
                     cond |-> ret], "statement")
       ELSE /\ pos' = pos
            /\ Raise(expect(":", pos))
    /\ UNCHANGED Unparsed

\* body = self.statement() has returned: return If(cond, body)
StatementIfReturn ==
    /\ InCall("statement", {"if_body"})
    /\ pos' = pos
    /\ Return(If(Top.cond, ret))
    /\ UNCHANGED Unparsed

\* expr(): node = self.term()
ExprStart ==
    /\ InCall("expr", {"start"})
    /\ pos' = pos
    /\ Call([Top EXCEPT !.at = "first"], "term")
    /\ UNCHANGED Unparsed

\* The operands of the new node the wrong way round.
ExprNodeSwapped ==
    IF Top.at = "first" THEN ret ELSE BinOp(ret, Top.op, Top.node)

\* The node expr holds once a call of term has returned.
ExprNode ==
    IF Top.at = "first" THEN ret ELSE BinOp(Top.node, Top.op, ret)

\* while(self.peek()[0] in ('+', '-')): op; advance; right = self.term()
ExprMore ==
    /\ InCall("expr", {"first", "right"})
    /\ peek.val \in {"+", "-"}
    /\ pos' = pos + 1
    /\ Call([fn |-> "expr", at |-> "right", entry |-> Top.entry,
             node |-> ExprNode, op |-> peek.val], "term")
    /\ UNCHANGED Unparsed

\* The loop of expr ends: return node
ExprReturn ==
    /\ InCall("expr", {"first", "right"})
    /\ peek.val \notin {"+", "-"}
    /\ pos' = pos
    /\ Return(ExprNode)
    /\ UNCHANGED Unparsed

\* term(): node = self.factor()
TermStart ==
    /\ InCall("term", {"start"})
    /\ pos' = pos
    /\ Call([Top EXCEPT !.at = "first"], "factor")
    /\ UNCHANGED Unparsed

\* The node term holds once a call of factor has returned.
TermNode ==
    IF Top.at = "first" THEN ret ELSE BinOp(Top.node, Top.op, ret)

\* while(self.peek()[0] in ('*', '/', '%')): op; advance; right = self.factor()
TermMore ==
    /\ InCall("term", {"first", "right"})
    /\ peek.val \in {"*", "/", "%"}
    /\ pos' = pos + 1
    /\ Call([fn |-> "term", at |-> "right", entry |-> Top.entry,
             node |-> TermNode, op |-> peek.val], "factor")
    /\ UNCHANGED Unparsed

\* The loop of term ends: return node
TermReturn ==
    /\ InCall("term", {"first", "right"})
    /\ peek.val \notin {"*", "/", "%"}
    /\ pos' = pos
    /\ Return(TermNode)
    /\ UNCHANGED Unparsed

\* factor(): an INTEGER token
FactorNumber ==
    /\ InCall("factor", {"start"})
    /\ peek.kind = "INTEGER"
    /\ pos' = pos + 1
    /\ Return(Number(peek.val))
    /\ UNCHANGED Unparsed

\* factor(): a STRING token
FactorString ==
    /\ InCall("factor", {"start"})
    /\ peek.kind = "STRING"
    /\ pos' = pos + 1
    /\ Return(String(peek.val))
    /\ UNCHANGED Unparsed

\* factor(): an IDENT token
FactorVar ==
    /\ InCall("factor", {"start"})
    /\ peek.kind = "IDENT"
    /\ pos' = pos + 1
    /\ Return(Var(peek.val))
    /\ UNCHANGED Unparsed

\* factor(): '(' opens a parenthesised expression
FactorParen ==
    /\ InCall("factor", {"start"})
    /\ peek.kind \notin {"INTEGER", "STRING", "IDENT"}
    /\ peek.val = "("
    /\ pos' = pos + 1
    /\ Call([Top EXCEPT !.at = "paren"], "expr")
    /\ UNCHANGED Unparsed

\* node = self.expr() has returned: self.expect(')'); return node
FactorParenClose ==
    /\ InCall("factor", {"paren"})
    /\ IF expect(")", pos) = ""
       THEN /\ pos' = pos + 1
            /\ Return(ret)
       ELSE /\ pos' = pos
            /\ Raise(expect(")", pos))
    /\ UNCHANGED Unparsed

\* factor(): no branch applies.
FactorUnexpected ==
    /\ InCall("factor", {"start"})
    /\ peek.kind \notin {"INTEGER", "STRING", "IDENT"}
    /\ peek.val # "("
    /\ pos' = pos
    /\ Raise("Unexpected factor " \o Spelled(peek))
    /\ UNCHANGED Unparsed

ParserStep ==
    \/ ParseCall \/ ParseAppend \/ ParseReturn
    \/ StatementPrint \/ StatementAssign \/ StatementIf \/ StatementUnexpected
    \/ StatementPrintClose \/ StatementAssignReturn
    \/ StatementIfBody \/ StatementIfReturn
    \/ ExprStart \/ ExprMore \/ ExprReturn
    \/ TermStart \/ TermMore \/ TermReturn
    \/ FactorNumber \/ FactorString \/ FactorVar
    \/ FactorParen \/ FactorParenClose \/ FactorUnexpected

(***************************************************************************)
(* C code generator                                                        *)
(***************************************************************************)
\* CGen.e: a C expression from an expression node.
RECURSIVE e(_)
e(node) ==
    IF node.node = "Number" THEN ToString(node.value)
    ELSE IF node.node = "Var" THEN node.name
    ELSE IF node.node = "BinOp"
         THEN "(" \o e(node.left) \o " " \o node.op \o " " \o e(node.right) \o ")"
    ELSE "0"

\* CGen.emit: the lines one node appends to self.lines.
RECURSIVE emit(_)
emit(node) ==
    IF node.node = "Assign"
    THEN <<"    int " \o node.name \o " = " \o e(node.expr) \o ";">>
    ELSE IF node.node = "Print"
    THEN <<"    printf(\"%d\\n\", " \o e(node.expr) \o ");">>
    ELSE IF node.node = "If"
    THEN <<"    if (" \o e(node.cond) \o ") {">> \o emit(node.body) \o <<"    }">>
    ELSE <<>>

RECURSIVE EmitAll(_)
EmitAll(stmts) ==
    IF stmts = <<>> THEN <<>> ELSE emit(Head(stmts)) \o EmitAll(Tail(stmts))

\* '\n'.join(lines)
RECURSIVE JoinLines(_)
JoinLines(lines) ==
    IF lines = <<>> THEN ""
    ELSE IF Len(lines) = 1 THEN lines[1]
    ELSE lines[1] \o "\n" \o JoinLines(Tail(lines))

\* CGen.gen: the text of the C program.
gen(stmts) ==
    JoinLines(<<"#include <stdio.h>", "", "int main() {">>
              \o EmitAll(stmts)
              \o <<"    return 0;", "}">>)

(***************************************************************************)
(* Interpreter.  A value is an integer or None; no call of eval returns a  *)
(* text.  Eval gives the value a call returns, the environment and the     *)
(* printed lines it leaves, and the exception it raises ("" for none).     *)
(***************************************************************************)
None == [t |-> "None"]

IntValue(n) == [t |-> "int", n |-> n]

\* self.env.get(name)
Get(environment, name) ==
    IF name \in DOMAIN environment THEN environment[name] ELSE None

\* An assignment that keeps no other binding.
SetAlone(environment, name, v) == [n \in {name} |-> v]

\* self.env[name] = v
Set(environment, name, v) ==
    [n \in DOMAIN environment \cup {name} |->
        IF n = name THEN v ELSE environment[n]]

\* l // r on integers, r # 0: the quotient rounded towards minus infinity.
FloorDiv(l, r) == l \div r

TruncDiv(l, r) ==
    IF (l < 0) = (r < 0) THEN l \div r ELSE 0 - ((0 - l) \div r)

\* l % r on integers, r # 0: the remainder that goes with l // r.
FloorMod(l, r) == l - r * FloorDiv(l, r)

\* The operator branch of eval on the operand values l and r.
Apply(op, l, r) ==
    IF l = None \/ r = None
    THEN [val |-> None, err |-> "TypeError"]
    ELSE IF op = "+" THEN [val |-> IntValue(l.n + r.n), err |-> ""]
    ELSE IF op = "-" THEN [val |-> IntValue(l.n - r.n), err |-> ""]
    ELSE IF op = "*" THEN [val |-> IntValue(l.n * r.n), err |-> ""]
    ELSE IF r.n = 0 THEN [val |-> None, err |-> "ZeroDivisionError"]
    ELSE IF op = "/" THEN [val |-> IntValue(FloorDiv(l.n, r.n)), err |-> ""]
    ELSE [val |-> IntValue(FloorMod(l.n, r.n)), err |-> ""]

\* str(v), as print writes it.
Str(v) == IF v = None THEN "None" ELSE ToString(v.n)

\* bool(v)
Truthy(v) == v # None /\ v.n # 0

RECURSIVE Eval(_, _, _)
Eval(node, environment, printed) ==
    LET Result(v, en, pr, er) == [val |-> v, env |-> en, out |-> pr, err |-> er]
    IN
    IF node.node = "Number"
    THEN Result(IntValue(node.value), environment, printed, "")
    ELSE IF node.node = "Var"
    THEN Result(Get(environment, node.name), environment, printed, "")
    ELSE IF node.node = "BinOp"
    THEN LET l == Eval(node.left, environment, printed)
             r == Eval(node.right, l.env, l.out)
             a == Apply(node.op, l.val, r.val)
         IN  IF l.err # "" THEN l
             ELSE IF r.err # "" THEN r
             ELSE IF node.op \in {"+", "-", "*", "/", "%"}
                  THEN Result(a.val, r.env, r.out, a.err)
             ELSE Result(None, r.env, r.out, "")
    ELSE IF node.node = "Assign"
    THEN LET v == Eval(node.expr, environment, printed)
         IN  IF v.err # "" THEN v
             ELSE Result(None, Set(v.env, node.name, v.val), v.out, "")
    ELSE IF node.node = "Print"
    THEN LET v == Eval(node.expr, environment, printed)
         IN  IF v.err # "" THEN v
             ELSE Result(None, v.env, Append(v.out, Str(v.val)), "")
    ELSE IF node.node = "If"
    THEN LET c == Eval(node.cond, environment, printed)
         IN  IF c.err # "" THEN c
             ELSE IF Truthy(c.val)
                  THEN [Eval(node.body, c.env, c.out) EXCEPT !.val = None]
             ELSE Result(None, c.env, c.out, "")
    ELSE Result(None, environment, printed, "")

(***************************************************************************)
(* Source programs: the lists of lines a run starts from.                  *)
(***************************************************************************)
MaxSpaces == 1

MaxInt == 2

MaxOperands == 3

MaxLines == 3

RECURSIVE Spaces(_)
Spaces(n) == IF n = 0 THEN "" ELSE " " \o Spaces(n - 1)

Gaps == {Spaces(n) : n \in 0..MaxSpaces}

ArithOps == {"+", "-", "*", "/", "%"}

Ints == (0 - MaxInt)..MaxInt

\* The sample of the main block.
Sample == <<"x = 10", "y = 20", "print(x + y)", "if x: print(\"X\")">>

\* The symbolic operators of more than one character.
LongOps == {o \in OperatorSet : Len(o) >= 2 /\ Ch(o, 1) \notin Letters}

\* A long operator between two operands, with any spacing around it.
OpCases ==
    [left : {"x", "2"}, op : LongOps, right : {"y", "2", "-2"},
     before : Gaps, after : Gaps]

OpLine(c) == c.left \o c.before \o c.op \o c.after \o c.right

OpSources == {<<OpLine(c)>> : c \in OpCases}

\* One operation on two integer literals, printed at once or assigned first,
\* with any spacing around the operator.
ArithCases == [a : Ints, op : ArithOps, b : Ints, gap : Gaps]

ArithText(c) == ToString(c.a) \o c.gap \o c.op \o c.gap \o ToString(c.b)

ArithPrint(c) == <<"print(" \o ArithText(c) \o ")">>

ArithAssign(c) == <<"x = " \o ArithText(c), "print(x)">>

ArithSources == {ArithPrint(c) : c \in ArithCases}
                    \cup {ArithAssign(c) : c \in ArithCases}

\* The operators of the generated expressions: the additive level, and two
\* of the multiplicative level.
ShapeOps == {"-", "*", "%"}

\* The expressions of n operands, "_" standing for an operand: every choice
\* of operators, with and without parentheses around each operand that is
\* itself an operation.
RECURSIVE Shapes(_)
Shapes(n) ==
    LET Operand(m) ==
            IF m = 1 THEN Shapes(1)
            ELSE Shapes(m) \cup {<<"(">> \o s \o <<")">> : s \in Shapes(m)}
    IN  IF n = 1 THEN {<<"_">>}
        ELSE UNION {{l \o <<o>> \o r :
                        l \in Operand(k), r \in Operand(n - k), o \in ShapeOps} :
                    k \in 1..(n - 1)}

OperandNames == "abcdefgh"

\* The shape with its k-th operand named by the k-th letter, from count k on.
RECURSIVE Named(_, _)
Named(shape, k) ==
    IF shape = <<>> THEN <<>>
    ELSE IF Head(shape) = "_"
         THEN <<Ch(OperandNames, k)>> \o Named(Tail(shape), k + 1)
         ELSE <<Head(shape)>> \o Named(Tail(shape), k)

RECURSIVE Spell(_, _)
Spell(words, gap) ==
    IF words = <<>> THEN ""
    ELSE IF Len(words) = 1 THEN words[1]
    ELSE words[1] \o gap \o Spell(Tail(words), gap)

\* Expressions written out, with the other two operators among them.
Written ==
    {"a - b - c", "a / b % c", "a + b * c", "a * (b + c)", "a - (b - c)",
     "a + b - c", "a % b / c", "(a + b) / c"}

ExprSources ==
    {<<"x = " \o Spell(Named(s, 1), g)>> :
        s \in UNION {Shapes(n) : n \in 1..MaxOperands}, g \in Gaps}
        \cup {<<"x = " \o t>> : t \in Written}
        \cup {<<"print(" \o t \o ")">> : t \in Written}

\* Lines that parse, each with the statement it stands for, and lines that
\* do not.
ValidLines ==
    {[text |-> "x = 1", stmt |-> Assign("x", Number("1"))],
     [text |-> "print(x)", stmt |-> PrintNode(Var("x"))]}

Malformed == {"x +", "print(1", "x = *"}

LineLists(alphabet) ==
    UNION {[1..n -> alphabet] : n \in 1..MaxLines}

\* The lists of lines of which exactly one is malformed.
ErrSources ==
    {src \in LineLists({v.text : v \in ValidLines} \cup Malformed) :
        Cardinality({k \in 1..Len(src) : src[k] \in Malformed}) = 1}

\* String literals: the delimiter and the text between.
StringCases == [quote : Quotes, text : {"", "X", "a b"}]

Quoted(c) == c.quote \o c.text \o c.quote

StringSources ==
    {<<"print(" \o Quoted(c) \o ")">> : c \in StringCases}
        \cup {<<"x = " \o Quoted(c)>> : c \in StringCases}
        \cup {<<"if " \o Quoted(c) \o ": print(1)">> : c \in StringCases}
        \cup {<<"print(" \o Quoted(c) \o " + 1)">> : c \in StringCases}

\* Conditions of every kind of value: integers, an unbound name.
IfSources ==
    {<<"if " \o ToString(n) \o ": print(1)">> : n \in Ints}
        \cup {<<"if z: print(1)">>,
              <<"if 1: if 0: print(5)">>,
              <<"x = 0", "if x: print(1)", "print(2)">>}

\* Programs that bind, rebind and read names.
EnvSources ==
    LineLists({"x = 1", "y = x + 1", "print(z)", "if y: x = 2"})

Sources ==
    {Sample} \cup OpSources \cup ArithSources \cup ExprSources
        \cup ErrSources \cup StringSources \cup IfSources \cup EnvSources

(***************************************************************************)
(* The runner run_py2c, and an interpreter run over the statements it      *)
(* parsed.                                                                 *)
(***************************************************************************)
Init ==
    /\ source \in Sources
    /\ i = 1
    /\ toks = <<>>
    /\ errs = <<>>
    /\ pc = "lex"
    /\ exc = ""
    /\ pos = 0
    /\ stack = <<>>
    /\ ret = NoNode
    /\ statements = <<>>
    /\ c_code = ""
    /\ gcc = ""
    /\ env = <<>>
    /\ out = <<>>
    /\ ip = 1
    /\ ierr = ""

\* One pass of the loop over the lines: toks.extend(tokenise_python_code(ln)).
\* The tokeniser raises nothing, so the except branch is never taken and errs
\* stays as it is.
LexLine ==
    /\ pc = "lex"
    /\ i <= Len(source)
    /\ toks' = toks \o tokenise_python_code(source[i])
    /\ i' = i + 1
    /\ UNCHANGED <<source, errs, pc, exc, pos, stack, ret, statements,
                   c_code, gcc, env, out, ip, ierr>>

\* The loop is over: Parser(toks) is built and parse() is called.
StartParse ==
    /\ pc = "lex"
    /\ i > Len(source)
    /\ pc' = "parse"
    /\ pos' = 0
    /\ stack' = <<[fn |-> "parse", at |-> "loop"]>>
    /\ statements' = <<>>
    /\ UNCHANGED <<source, i, toks, errs, exc, ret, c_code, gcc, env, out,
                   ip, ierr>>

\* c_code = CGen().gen(statements), written to output.c
Generate ==
    /\ pc = "gen"
    /\ c_code' = gen(statements)
    /\ pc' = "gcc"
    /\ UNCHANGED <<source, i, toks, errs, exc, pos, stack, ret, statements,
                   gcc, env, out, ip, ierr>>

\* subprocess.run(['gcc', ...], check=True): the compiler accepts the file or
\* the CalledProcessError is caught and reported.
RunGcc ==
    /\ pc = "gcc"
    /\ \E accepted \in BOOLEAN :
          gcc' = IF accepted THEN "Wrote output.c and output.s" ELSE "GCC failed"
    /\ pc' = "done"
    /\ UNCHANGED <<source, i, toks, errs, exc, pos, stack, ret, statements,
                   c_code, env, out, ip, ierr>>

\* The parser has handed its statements over.
Parsed == pc \in {"gen", "gcc", "done"}

\* Interpreter.eval on the next statement, in program order; an exception
\* ends the interpretation.
EvalStatement ==
    /\ Parsed
    /\ ierr = ""
    /\ ip <= Len(statements)
    /\ LET r == Eval(statements[ip], env, out)
       IN  /\ env' = r.env
           /\ out' = r.out
           /\ ierr' = r.err
    /\ ip' = ip + 1
    /\ UNCHANGED <<source, i, toks, errs, pc, exc, pos, stack, ret,
                   statements, c_code, gcc>>

Next ==
    \/ LexLine
    \/ StartParse
    \/ ParserStep
    \/ Generate
    \/ RunGcc
    \/ EvalStatement

Spec == Init /\ [][Next]_vars

(***************************************************************************)
(* Claims                                                                  *)
(***************************************************************************)
Lexed == i > Len(source)

IsPrefix(p, o) == Len(p) < Len(o) /\ SubSeq(o, 1, Len(p)) = p

\* C6: longest-operator matching.  Once a line that spells a long operator
\* between two operands, with any spacing, is tokenised, the operator is
\* exactly one token of kind OP and no operator that is a proper prefix of it
\* is a token.
C6_LongestOperator ==
    \A c \in OpCases :
        (source = <<OpLine(c)>> /\ Lexed) =>
            /\ Cardinality({n \in 1..Len(toks) :
                               toks[n] = [val |-> c.op, kind |-> "OP"]}) = 1
            /\ \A n \in 1..Len(toks) :
                  ~(toks[n].kind = "OP" /\ IsPrefix(toks[n].val, c.op))
            /\ Len(toks) = 3

\* "x//=2" has been tokenised.
C6_Witness ==
    /\ Lexed
    /\ source = <<"x//=2">>
    /\ toks[2] = [val |-> "//=", kind |-> "OP"]

\* The operators of ts that stand outside every pair of parentheses.
Depth(ts, k) ==
    Cardinality({n \in 1..(k - 1) : ts[n].val = "("})
        - Cardinality({n \in 1..(k - 1) : ts[n].val = ")"})

Outer(ts, ops) ==
    {k \in 1..Len(ts) : ts[k].kind = "OP" /\ ts[k].val \in ops /\ Depth(ts, k) = 0}

Last(S) == CHOOSE k \in S : \A n \in S : n <= k

\* The tree conventional arithmetic reads from the tokens of an expression:
\* the last additive operator outside parentheses is the root; if there is
\* none, the last multiplicative one; if there is none, the tokens are an
\* operand: a parenthesised expression, or a literal or a name.
RECURSIVE Reading(_)
Reading(ts) ==
    LET Split(k) == BinOp(Reading(SubSeq(ts, 1, k - 1)), ts[k].val,
                          Reading(SubSeq(ts, k + 1, Len(ts))))
    IN  IF Outer(ts, {"+", "-"}) # {} THEN Split(Last(Outer(ts, {"+", "-"})))
        ELSE IF Outer(ts, {"*", "/", "%"}) # {}
             THEN Split(Last(Outer(ts, {"*", "/", "%"})))
        ELSE IF ts[1].val = "(" THEN Reading(SubSeq(ts, 2, Len(ts) - 1))
        ELSE IF ts[1].kind = "INTEGER" THEN Number(ts[1].val)
        ELSE IF ts[1].kind = "STRING" THEN String(ts[1].val)
        ELSE Var(ts[1].val)

\* C7: structure of parsed expressions.  Whenever the parser accepts a token
\* sequence as one assignment or one print, the expression node it built is
\* the conventional reading of the expression's tokens: operators of one
\* level associate to the left, a multiplicative operator binds tighter than
\* an additive one, a parenthesised expression is one operand.
C7_ExpressionStructure ==
    (Parsed /\ Len(statements) = 1) =>
        /\ statements[1].node = "Assign" =>
              statements[1].expr = Reading(SubSeq(toks, 3, Len(toks)))
        /\ statements[1].node = "Print" =>
              statements[1].expr = Reading(SubSeq(toks, 3, Len(toks) - 1))
        /\ source = <<"x = a - b - c">> =>
              statements[1].expr =
                  BinOp(BinOp(Var("a"), "-", Var("b")), "-", Var("c"))
        /\ source = <<"x = a / b % c">> =>
              statements[1].expr =
                  BinOp(BinOp(Var("a"), "/", Var("b")), "%", Var("c"))
        /\ source = <<"x = a + b * c">> =>
              statements[1].expr =
                  BinOp(Var("a"), "+", BinOp(Var("b"), "*", Var("c")))
        /\ source = <<"x = a * (b + c)">> =>
              statements[1].expr =
                  BinOp(Var("a"), "*", BinOp(Var("b"), "+", Var("c")))
        /\ source = <<"x = a - (b - c)">> =>
              statements[1].expr =
                  BinOp(Var("a"), "-", BinOp(Var("b"), "-", Var("c")))

\* "x = a - (b - c)" has been parsed, its parentheses overriding the
\* association to the left.
C7_Witness ==
    /\ Parsed
    /\ source = <<"x = a - (b - c)">>
    /\ statements = <<Assign("x", BinOp(Var("a"), "-",
                                        BinOp(Var("b"), "-", Var("c"))))>>

\* A call of statement returns to its caller.
StatementReturns ==
    /\ pc = "parse" /\ pc' = "parse"
    /\ stack # <<>>
    /\ Top.fn = "statement"
    /\ Len(stack') < Len(stack)

\* C8: parser cursor discipline.  pos never exceeds the number of tokens and
\* never decreases; a call of statement that returns has consumed at least
\* one token; when parse returns, pos is the number of tokens.
C8_CursorDiscipline ==
    /\ [](pos <= Len(toks))
    /\ [](Parsed => pos = Len(toks))
    /\ [][pos' >= pos]_vars
    /\ [][StatementReturns => pos' > Top.entry]_vars

\* parse has returned two statements, the second an if whose body is a
\* statement of its own.
C8_Witness ==
    /\ Parsed
    /\ Len(statements) >= 2
    /\ statements[Len(statements)].node = "If"
    /\ pos = Len(toks)

\* The interpreter has come to the end of the statements, or has stopped at
\* an exception.
Interpreted == Parsed /\ (ip > Len(statements) \/ ierr # "")

TheMalformed(src) == CHOOSE k \in 1..Len(src) : src[k] \in Malformed

RECURSIVE StatementsOf(_)
StatementsOf(src) ==
    IF src = <<>> THEN <<>>
    ELSE IF Head(src) \in Malformed THEN StatementsOf(Tail(src))
    ELSE <<(CHOOSE v \in ValidLines : v.text = Head(src)).stmt>>
         \o StatementsOf(Tail(src))

\* C1: line-at-a-time error recovery.  In a run over lines of which line k
\* is malformed, the run is not aborted, the statements handed on are those
\* of the valid lines, each parsed as it is alone, and one SyntaxError is
\* reported, tagged with line k.
C1_LineRecovery ==
    source \in ErrSources =>
        /\ pc # "aborted"
        /\ Parsed =>
              /\ statements = StatementsOf(source)
              /\ Len(errs) = 1
              /\ IsPrefix("Line " \o ToString(TheMalformed(source)) \o ": ",
                          errs[1])

Abs(n) == IF n < 0 THEN 0 - n ELSE n

\* Integer arithmetic of the host: the quotient q and the remainder m of a by
\* b are the integers with a = q * b + m and m between 0 and b, b excluded.
HostQuotient(a, b) ==
    CHOOSE q \in (0 - Abs(a))..Abs(a) :
        \E m \in (0 - Abs(b))..Abs(b) :
            /\ a = q * b + m
            /\ b > 0 => (0 <= m /\ m < b)
            /\ b < 0 => (b < m /\ m <= 0)

HostArithmetic(a, op, b) ==
    IF op = "+" THEN a + b
    ELSE IF op = "-" THEN a - b
    ELSE IF op = "*" THEN a * b
    ELSE IF op = "/" THEN HostQuotient(a, b)
    ELSE a - b * HostQuotient(a, b)

HostDefined(c) == c.op \in {"/", "%"} => c.b # 0

\* C2: round trip of integer arithmetic.  A program that prints, or assigns
\* and then prints, one operation on two integer literals, with any spacing
\* around the operator, is tokenised and parsed without an error and prints
\* the integer the host's arithmetic gives.
C2_ArithmeticRoundTrip ==
    (Len(source) <= 2 /\ (pc = "aborted" \/ Interpreted)) =>
        \A c \in ArithCases :
            (source \in {ArithPrint(c), ArithAssign(c)} /\ HostDefined(c)) =>
                /\ pc # "aborted"
                /\ ierr = ""
                /\ out = <<ToString(HostArithmetic(c.a, c.op, c.b))>>

\* The same with at least one blank on either side of the operator.
C2_Spaced ==
    (Len(source) <= 2 /\ (pc = "aborted" \/ Interpreted)) =>
        \A c \in ArithCases :
            (source \in {ArithPrint(c), ArithAssign(c)} /\ HostDefined(c)
                /\ c.gap # "") =>
                /\ pc # "aborted"
                /\ ierr = ""
                /\ out = <<ToString(HostArithmetic(c.a, c.op, c.b))>>

Text(s) == [t |-> "str", s |-> s]

\* C4: value of a string literal.  Once the statement parsed from print(s)
\* or from x = s, s a quoted string, is evaluated, the text of s without its
\* quotes has been printed, or is what x is bound to.
C4_StringValue ==
    (Len(source) = 1 /\ Interpreted) =>
        \A c \in StringCases :
            /\ source = <<"print(" \o Quoted(c) \o ")">> =>
                  (ierr = "" /\ out = <<c.text>>)
            /\ source = <<"x = " \o Quoted(c)>> =>
                  (ierr = "" /\ "x" \in DOMAIN env /\ env["x"] = Text(c.text))

RECURSIVE HasString(_)
HasString(node) ==
    IF node.node = "String" THEN TRUE
    ELSE IF node.node = "BinOp" THEN HasString(node.left) \/ HasString(node.right)
    ELSE IF node.node \in {"Assign", "Print"} THEN HasString(node.expr)
    ELSE IF node.node = "If" THEN HasString(node.cond) \/ HasString(node.body)
    ELSE FALSE

\* The tree with the integer literal 0 in the place of every string literal.
RECURSIVE ZeroForStrings(_)
ZeroForStrings(node) ==
    IF node.node = "String" THEN [node |-> "Number", value |-> 0]
    ELSE IF node.node = "BinOp"
         THEN BinOp(ZeroForStrings(node.left), node.op, ZeroForStrings(node.right))
    ELSE IF node.node = "Assign" THEN Assign(node.name, ZeroForStrings(node.expr))
    ELSE IF node.node = "Print" THEN PrintNode(ZeroForStrings(node.expr))
    ELSE IF node.node = "If"
         THEN If(ZeroForStrings(node.cond), ZeroForStrings(node.body))
    ELSE node

\* C5: no silent mistranslation of strings.  When a statement list that holds
\* a string literal has gone through CGen.gen, the run was rejected or the
\* text differs from the text of the integer program that has 0 where the
\* strings were.
C5_StringsNotMistranslated ==
    (pc \in {"gcc", "done"}
        /\ \E n \in 1..Len(statements) : HasString(statements[n])) =>
        c_code # gen([n \in 1..Len(statements) |-> ZeroForStrings(statements[n])])

\* The interpreter evaluates the next statement.
EvalStep ==
    /\ Parsed
    /\ ierr = ""
    /\ ip <= Len(statements)
    /\ ip' = ip + 1

\* The value the data model gives a condition: the text of a string literal,
\* and for every other node what eval returns.
ConditionValue(node) ==
    IF node.node = "String" THEN Text(node.value)
    ELSE Eval(node, env, out).val

\* Neither the integer zero nor the absent value.
Nonzero(v) == v # None /\ v # IntValue(0)

\* The effect of an if statement s on the environment and the printed lines
\* is that of its body, evaluated once, when run is true, and none otherwise.
IfEffect(s, run) ==
    IF run
    THEN /\ env' = Eval(s.body, env, out).env
         /\ out' = Eval(s.body, env, out).out
    ELSE /\ env' = env
         /\ out' = out

\* C9: if-statement evaluation.  eval of an If node evaluates the body once
\* when the value of the condition is neither the integer zero nor absent
\* (a non-zero integer, a text), and does nothing otherwise; the program
\* "if 1: if 0: print(5)" is an If whose body is an If and prints nothing.
C9_IfEvaluation ==
    /\ [][(EvalStep /\ statements[ip].node = "If") =>
            IfEffect(statements[ip],
                     Nonzero(ConditionValue(statements[ip].cond)))]_vars
    /\ []((source = <<"if 1: if 0: print(5)">> /\ Parsed) =>
            /\ statements =
                  <<If(Number("1"), If(Number("0"), PrintNode(Number("5"))))>>
            /\ out = <<>>)

\* The same for the conditions whose value eval computes as an integer or as
\* absent: every condition but those that hold a string literal.
C9_IntegerConditions ==
    /\ [][(EvalStep /\ statements[ip].node = "If"
              /\ ~HasString(statements[ip].cond)) =>
            IfEffect(statements[ip],
                     Nonzero(ConditionValue(statements[ip].cond)))]_vars
    /\ []((source = <<"if 1: if 0: print(5)">> /\ Parsed) =>
            /\ statements =
                  <<If(Number("1"), If(Number("0"), PrintNode(Number("5"))))>>
            /\ out = <<>>)

\* The expression nodes below a node.
RECURSIVE Expressions(_)
Expressions(node) ==
    IF node.node = "BinOp"
    THEN {node} \cup Expressions(node.left) \cup Expressions(node.right)
    ELSE IF node.node \in {"Assign", "Print"} THEN Expressions(node.expr)
    ELSE IF node.node = "If"
         THEN Expressions(node.cond) \cup Expressions(node.body)
    ELSE {node}

\* Every binding but that of name is the same before and after the step.
OthersKept(name) ==
    \A m \in (DOMAIN env \cup DOMAIN env') \ {name} :
        m \in DOMAIN env /\ m \in DOMAIN env' /\ env'[m] = env[m]

\* C10: frame of the interpreter environment.  The environment is empty
\* until the first statement is evaluated; evaluating a Number, Var or BinOp
\* node in any environment the run reaches leaves it as it is, and an unbound
\* name evaluates to the absent value; a step that evaluates a Print, or an
\* If whose condition is falsy, leaves the environment as it is; a step that
\* evaluates Assign(n, e) changes the binding of n only, to the value of e.
C10_EnvironmentFrame ==
    /\ [](ip = 1 => env = <<>>)
    /\ [](Parsed =>
            \A k \in 1..Len(statements) :
                \A x \in Expressions(statements[k]) :
                    /\ Eval(x, env, out).env = env
                    /\ (x.node = "Var" /\ x.name \notin DOMAIN env) =>
                           Eval(x, env, out).val = None)
    /\ [][EvalStep =>
            LET s == statements[ip]
            IN  /\ s.node = "Print" => env' = env
                /\ (s.node = "If" /\ ~Truthy(Eval(s.cond, env, out).val)) =>
                       env' = env
                /\ s.node = "Assign" =>
                       /\ OthersKept(s.name)
                       /\ ierr' = "" =>
                              /\ s.name \in DOMAIN env'
                              /\ env'[s.name] = Eval(s.expr, env, out).val]_vars

\* x was bound, the unbound z was looked up and printed as absent, then y was
\* bound beside x.
C10_Witness ==
    /\ source = <<"x = 1", "print(z)", "y = x + 1">>
    /\ Interpreted
    /\ env = [n \in {"x", "y"} |-> IF n = "x" THEN IntValue(1) ELSE IntValue(2)]
    /\ out = <<"None">>

(***************************************************************************)
(* The target language, for the text gen produces: declarations with an    *)
(* initialiser, printf of one int, if blocks, fully parenthesised          *)
(* expressions over int.  A block opens a scope; a name is declared once   *)
(* in a scope and before it is used; / rounds towards zero and % goes with *)
(* it; a division by zero, a read of a variable in its own initialiser and *)
(* a result outside int are undefined.                                     *)
(***************************************************************************)
RECURSIVE Lines(_)
Lines(text) ==
    LET brk == Find("\n", text, 1)
    IN  IF brk = 0 THEN <<text>>
        ELSE <<SubSeq(text, 1, brk - 1)>>
             \o Lines(SubSeq(text, brk + 1, Len(text)))

StartsWith(s, p) == Len(p) <= Len(s) /\ SubSeq(s, 1, Len(p)) = p

DeclPrefix == "    int "

PrintPrefix == "    printf(\"%d\\n\", "

IfPrefix == "    if ("

BlockEnd == "    }"

\* The expression that starts at index k of a line: its tree and the index
\* behind it.  An operand ends at a blank, a parenthesis or a semicolon.
RECURSIVE CParse(_, _)
CParse(s, k) ==
    IF Ch(s, k) = "("
    THEN LET l == CParse(s, k + 1)
             r == CParse(s, l.end + 3)
         IN  [tree |-> [c |-> "bin", l |-> l.tree, op |-> Ch(s, l.end + 1),
                        r |-> r.tree],
              end |-> r.end + 1]
    ELSE LET stop == Span(IdentChars \cup {"-"}, s, k)
             word == SubSeq(s, k, stop - 1)
         IN  [tree |-> IF Ch(word, 1) \in Digits \cup {"-"}
                       THEN [c |-> "lit", v |-> int(word)]
                       ELSE [c |-> "id", name |-> word],
              end |-> stop]

\* What a line of the body is, with the expression in it.
CLine(line) ==
    IF StartsWith(line, DeclPrefix)
    THEN LET stop == Span(IdentChars, line, Len(DeclPrefix) + 1)
         IN  [is |-> "decl",
              name |-> SubSeq(line, Len(DeclPrefix) + 1, stop - 1),
              expr |-> CParse(line, stop + 3).tree]
    ELSE IF StartsWith(line, PrintPrefix)
    THEN [is |-> "print", expr |-> CParse(line, Len(PrintPrefix) + 1).tree]
    ELSE IF StartsWith(line, IfPrefix)
    THEN [is |-> "if", expr |-> CParse(line, Len(IfPrefix) + 1).tree]
    ELSE [is |-> "end"]

RECURSIVE CNames(_)
CNames(tree) ==
    IF tree.c = "id" THEN {tree.name}
    ELSE IF tree.c = "bin" THEN CNames(tree.l) \cup CNames(tree.r)
    ELSE {}

\* The compiler accepts the body from line k on; scopes holds the names
\* declared in each open block, the innermost last.
RECURSIVE CAccepts(_, _, _)
CAccepts(body, k, scopes) ==
    LET ln == CLine(body[k])
        declared == UNION {scopes[n] : n \in 1..Len(scopes)}
        depth == Len(scopes)
    IN  IF k > Len(body) THEN TRUE
        ELSE IF ln.is = "decl"
        THEN /\ ln.name \notin scopes[depth]
             /\ CNames(ln.expr) \subseteq declared \cup {ln.name}
             /\ CAccepts(body, k + 1,
                         [scopes EXCEPT ![depth] = @ \cup {ln.name}])
        ELSE IF ln.is = "print"
        THEN CNames(ln.expr) \subseteq declared /\ CAccepts(body, k + 1, scopes)
        ELSE IF ln.is = "if"
        THEN /\ CNames(ln.expr) \subseteq declared
             /\ CAccepts(body, k + 1, Append(scopes, {}))
        ELSE CAccepts(body, k + 1, SubSeq(scopes, 1, depth - 1))

IntMax == 2147483647

InInt(n) == (0 - IntMax) - 1 <= n /\ n <= IntMax

\* The variable a name stands for: the innermost one declared.
RECURSIVE CLookup(_, _)
CLookup(frames, name) ==
    IF name \in DOMAIN frames[Len(frames)] THEN frames[Len(frames)][name]
    ELSE CLookup(SubSeq(frames, 1, Len(frames) - 1), name)

\* The value of an expression; defined is false where the language leaves
\* the behaviour undefined.  A variable without a value is held as None.
RECURSIVE CValue(_, _)
CValue(tree, frames) ==
    LET Defined(n) == [defined |-> InInt(n), n |-> n]
        Undefined == [defined |-> FALSE, n |-> 0]
    IN  IF tree.c = "lit" THEN Defined(tree.v)
        ELSE IF tree.c = "id"
        THEN IF CLookup(frames, tree.name) = None THEN Undefined
             ELSE Defined(CLookup(frames, tree.name).n)
        ELSE LET l == CValue(tree.l, frames)
                 r == CValue(tree.r, frames)
             IN  IF ~l.defined \/ ~r.defined THEN Undefined
                 ELSE IF tree.op = "+" THEN Defined(l.n + r.n)
                 ELSE IF tree.op = "-" THEN Defined(l.n - r.n)
                 ELSE IF tree.op = "*" THEN Defined(l.n * r.n)
                 ELSE IF r.n = 0 THEN Undefined
                 ELSE IF tree.op = "/" THEN Defined(TruncDiv(l.n, r.n))
                 ELSE Defined(l.n - r.n * TruncDiv(l.n, r.n))

\* The run of the body from line k on: frames holds the variables of each
\* open block, skip counts the blocks open in an if that is passed over.
RECURSIVE CExec(_, _, _, _, _)
CExec(body, k, frames, printed, skip) ==
    LET ln == CLine(body[k])
        depth == Len(frames)
        v == CValue(ln.expr,
                    IF ln.is = "decl"
                    THEN [frames EXCEPT ![depth] = Set(@, ln.name, None)]
                    ELSE frames)
    IN  IF k > Len(body) THEN [status |-> "ok", out |-> printed]
        ELSE IF skip > 0
        THEN CExec(body, k + 1, frames, printed,
                   IF ln.is = "if" THEN skip + 1
                   ELSE IF ln.is = "end" THEN skip - 1
                   ELSE skip)
        ELSE IF ln.is = "end"
        THEN CExec(body, k + 1, SubSeq(frames, 1, depth - 1), printed, 0)
        ELSE IF ~v.defined THEN [status |-> "undefined", out |-> printed]
        ELSE IF ln.is = "decl"
        THEN CExec(body, k + 1,
                   [frames EXCEPT ![depth] = Set(@, ln.name, IntValue(v.n))],
                   printed, 0)
        ELSE IF ln.is = "print"
        THEN CExec(body, k + 1, frames, Append(printed, ToString(v.n)), 0)
        ELSE IF v.n # 0
        THEN CExec(body, k + 1, Append(frames, <<>>), printed, 0)
        ELSE CExec(body, k + 1, frames, printed, 1)

\* The program text compiled and run: what it prints.
CRun(text) ==
    LET body == SubSeq(Lines(text), 4, Len(Lines(text)) - 2)
    IN  IF ~CAccepts(body, 1, <<{}>>)
        THEN [status |-> "rejected", out |-> <<>>]
        ELSE CExec(body, 1, <<<<>>>>, <<>>, 0)

RECURSIVE Names(_)
Names(node) ==
    IF node.node = "Var" THEN {node.name}
    ELSE IF node.node = "BinOp" THEN Names(node.left) \cup Names(node.right)
    ELSE {}

\* The names a statement reads when it is evaluated in environment.
RECURSIVE Reads(_, _)
Reads(s, environment) ==
    IF s.node = "If"
    THEN Names(s.cond) \cup
         (IF Truthy(Eval(s.cond, environment, <<>>).val)
          THEN Reads(s.body, environment) ELSE {})
    ELSE Names(s.expr)

\* The interpreter, run over the statements from environment on, meets
\* integers only: no string literal, no name that is unbound when it is
\* read, no exception.
RECURSIVE IntegersOnly(_, _)
IntegersOnly(stmts, environment) ==
    IF stmts = <<>> THEN TRUE
    ELSE /\ ~HasString(Head(stmts))
         /\ Reads(Head(stmts), environment) \subseteq DOMAIN environment
         /\ Eval(Head(stmts), environment, <<>>).err = ""
         /\ IntegersOnly(Tail(stmts), Eval(Head(stmts), environment, <<>>).env)

\* C3: backend equivalence.  For a statement list over integer values, the
\* text of CGen.gen, compiled and run, prints what the interpreter prints
\* for the same list.
C3_BackendEquivalence ==
    (pc \in {"gcc", "done"} /\ Interpreted /\ IntegersOnly(statements, <<>>)) =>
        CRun(c_code) = [status |-> "ok", out |-> out]

=============================================================================
